---- MODULE Spec2Model ----
(***************************************************************************)
(* Model of the statistics engine of cotacoes_insight:                     *)
(*   src/mapreduce_utils.py  chunkify, map_close, reduce_concat,           *)
(*                           compute_stats_from_list, map_reduce_stats     *)
(*   src/app.py              calcular_rsi, calcular_bandas_bollinger,      *)
(*                           calcular_macd, calcular_score_performance,    *)
(*                           obter_cor_semaforo                            *)
(*                                                                         *)
(* Five specifications share the variables below:                          *)
(*   SpecChunk    chunkify applied to bounded inputs                       *)
(*   SpecScore    calcular_score_performance and obter_cor_semaforo        *)
(*                applied to bounded inputs                                *)
(*   Spec         map_reduce_stats with its worker pool, called twice      *)
(*   SpecMetrics  the same operations, every set of requested metrics      *)
(*   SpecInd      the three indicators applied to bounded close series     *)
(***************************************************************************)
EXTENDS Integers, Sequences, FiniteSets, TLC

\* ------------------------------------------------------------------ bounds
\* longest input sequence
MaxLen == 3
\* largest value returned by cpu_count()
MaxCpu == 5
\* largest n_chunks handed to chunkify on its own
MaxChunks == 5
\* smallest (non-positive) n_chunks handed to chunkify on its own
MaxNegChunks == 2
\* mantissa width of the reduced-precision floating point sum
MantBits == 2
\* score inputs range over -MaxRetStep..MaxRetStep and -MaxVolStep..MaxVolStep,
\* in steps of 5 percent
MaxRetStep == 12
MaxVolStep == 24

\* close prices of the sample series
Prices == {1, 2, 3}
\* a missing Close (pandas NaN), dropped by dropna()
NaN == -1
\* moving_average_days values
Windows == {2, 3}

Min(a, b) == IF a < b THEN a ELSE b
Max(a, b) == IF a > b THEN a ELSE b

SeqsUpTo(S, n) == UNION {[1..k -> S] : k \in 0..n}

VARIABLES
    \* chunkify on its own
    cseq, cn, cout, cpc,
    \* calcular_score_performance on its own
    sret, svol, sout, spc, srisk, rpc,
    \* calcular_rsi, calcular_bandas_bollinger and calcular_macd on their own
    iclose, iperiod, ispans, irsi, ibb, imacd, idone,
    \* map_reduce_stats: arguments and environment
    df, metricsArg, moving_average_days, cpu,
    \* map_reduce_stats: locals, pool and outcome
    pc, call, metrics, close_series, n_workers, chunks, pool, task, out,
    order, mapped, all_values, results, ret, prev

chunkVars == <<cseq, cn, cout, cpc>>
scoreVars == <<sret, svol, sout, spc, srisk, rpc>>
indVars   == <<iclose, iperiod, ispans, irsi, ibb, imacd, idone>>
argVars   == <<df, metricsArg, moving_average_days, cpu>>
callVars  == <<pc, call, metrics, close_series, n_workers, chunks, pool, task,
               out, order, mapped, all_values, results, ret, prev>>
vars == <<chunkVars, scoreVars, indVars, argVars, callVars>>

\* ---------------------------------------------------------------- chunkify
\* Python seq[a:b] for 0 <= a, 0 <= b: positions a..b-1, clipped to the list
Slice(seq, a, b) == SubSeq(seq, Min(a, Len(seq)) + 1, Min(b, Len(seq)))

\* a plausible slip: the upper bound uses min(i, m) instead of min(i + 1, m)
RawChunksShortEnd(seq, n) ==
    LET k == Len(seq) \div n
        m == Len(seq) % n
    IN  [j \in 1..n |->
            LET i == j - 1
            IN  Slice(seq, i * k + Min(i, m), (i + 1) * k + Min(i, m))]

\* a plausible slip: the remainder goes to the last chunks, not the first
RawChunksRemainderLast(seq, n) ==
    LET k == Len(seq) \div n
        m == Len(seq) % n
    IN  [j \in 1..n |->
            LET i == j - 1
            IN  Slice(seq, i * k + Max(0, i - (n - m)),
                      (i + 1) * k + Max(0, i + 1 - (n - m)))]

\* line 37-38, n >= 1: the list comprehension over range(n_chunks)
RawChunks(seq, n) ==
    LET k == Len(seq) \div n
        m == Len(seq) % n
    IN  [j \in 1..n |->
            LET i == j - 1
            IN  Slice(seq, i * k + Min(i, m), (i + 1) * k + Min(i + 1, m))]

NonEmpty(c) == c # <<>>

\* a plausible slip: the empty chunks are kept
chunkifyKeepEmpty(seq, n) ==
    IF n = 0 THEN [raised |-> "ZeroDivisionError", chunks |-> <<>>]
    ELSE IF n < 0 THEN [raised |-> "", chunks |-> <<>>]
    ELSE [raised |-> "", chunks |-> RawChunks(seq, n)]

\* chunkify(seq, n_chunks): divmod raises on 0; range(n) is empty for n < 0
chunkify(seq, n) ==
    IF n = 0 THEN [raised |-> "ZeroDivisionError", chunks |-> <<>>]
    ELSE IF n < 0 THEN [raised |-> "", chunks |-> <<>>]
    ELSE [raised |-> "", chunks |-> SelectSeq(RawChunks(seq, n), NonEmpty)]

\* reduce(lambda a, b: a + b, lists, [])
RECURSIVE reduce_concat(_)
reduce_concat(lists) ==
    IF lists = <<>> THEN <<>>
    ELSE reduce_concat(SubSeq(lists, 1, Len(lists) - 1)) \o lists[Len(lists)]

\* ------------------------------------------------------------- arithmetic
Abs(x) == IF x < 0 THEN -x ELSE x

RECURSIVE Gcd(_, _)
Gcd(a, b) == IF b = 0 THEN a ELSE Gcd(b, a % b)

\* A float is the exact rational num/den in lowest terms with den > 0;
\* den = 0 is the not-a-number value.
NaNValue == [num |-> 0, den |-> 0]
IsNaN(x) == x.den = 0
Fr(n, d) ==
    IF d = 0 THEN NaNValue
    ELSE LET g == Gcd(Abs(n), Abs(d))
             s == IF d < 0 THEN -1 ELSE 1
         IN  [num |-> s * (n \div g), den |-> s * (d \div g)]
FrInt(n) == [num |-> n, den |-> 1]
FrAdd(x, y) ==
    IF IsNaN(x) \/ IsNaN(y) THEN NaNValue
    ELSE Fr(x.num * y.den + y.num * x.den, x.den * y.den)
FrSub(x, y) ==
    IF IsNaN(x) \/ IsNaN(y) THEN NaNValue
    ELSE Fr(x.num * y.den - y.num * x.den, x.den * y.den)
FrMul(x, y) ==
    IF IsNaN(x) \/ IsNaN(y) THEN NaNValue
    ELSE Fr(x.num * y.num, x.den * y.den)
FrDiv(x, y) ==
    IF IsNaN(x) \/ IsNaN(y) THEN NaNValue
    ELSE Fr(x.num * y.den, x.den * y.num)
FrLess(x, y) == x.num * y.den < y.num * x.den

\* Floating point addition rounds: Fl(x) is the non-negative integer x rounded
\* to MantBits significant bits, ties to even, so that a sum accumulated left
\* to right depends on the order of its terms as a float64 sum does.
RECURSIVE Pow2(_)
Pow2(e) == IF e = 0 THEN 1 ELSE 2 * Pow2(e - 1)
RECURSIVE UlpFrom(_, _)
UlpFrom(x, u) == IF x < Pow2(MantBits) * u THEN u ELSE UlpFrom(x, 2 * u)
Fl(x) ==
    LET u == UlpFrom(x, 1)
        q == x \div u
        r == x % u
        up == (2 * r > u) \/ (2 * r = u /\ q % 2 = 1)
    IN  IF up THEN (q + 1) * u ELSE q * u

\* the accumulation loop of a sum over the array, first element first
RECURSIVE FSum(_)
FSum(xs) ==
    IF xs = <<>> THEN 0
    ELSE Fl(FSum(SubSeq(xs, 1, Len(xs) - 1)) + xs[Len(xs)])

SeqMin(xs) == CHOOSE x \in {xs[i] : i \in DOMAIN xs} :
                  \A i \in DOMAIN xs : x <= xs[i]
SeqMax(xs) == CHOOSE x \in {xs[i] : i \in DOMAIN xs} :
                  \A i \in DOMAIN xs : x >= xs[i]

\* ------------------------------------------------- map and reduce functions
\* map_close: list(series_chunk), a copy of the chunk's values
map_close(series_chunk) == [i \in 1..Len(series_chunk) |-> series_chunk[i]]

\* a plausible slip: an empty array yields not-a-number statistics
compute_stats_nan_on_empty(values) ==
    LET n == Len(values) IN
    IF n = 0
    THEN [raised |-> "", mean |-> NaNValue, min |-> NaNValue,
          max |-> NaNValue, std |-> NaNValue]
    ELSE [raised |-> "",
          mean |-> Fr(FSum(values), n),
          min |-> FrInt(SeqMin(values)),
          max |-> FrInt(SeqMax(values)),
          std |-> Fr(FSum([i \in 1..n |->
                             (n * values[i] - FSum(values))
                                 * (n * values[i] - FSum(values))]),
                     n * n * (n - 1))]

\* compute_stats_from_list: np.nanmin raises ValueError on a zero-size array
\* (np.nanmean before it only warns). The values hold no NaN (dropna, line
\* 78). std is represented by its radicand, the sample variance
\*   sum((n*x - sum)^2) / (n^2 * (n - 1)),   not-a-number for n < 2.
compute_stats_from_list(values) ==
    LET n == Len(values)
        s == FSum(values)
        dev == [i \in 1..n |-> (n * values[i] - s) * (n * values[i] - s)]
    IN
    IF n = 0
    THEN [raised |-> "ValueError", mean |-> NaNValue, min |-> NaNValue,
          max |-> NaNValue, std |-> NaNValue]
    ELSE [raised |-> "",
          mean |-> Fr(s, n),
          min |-> FrInt(SeqMin(values)),
          max |-> FrInt(SeqMax(values)),
          std |-> Fr(FSum(dev), n * n * (n - 1))]

\* a plausible slip: the null entries are kept
dropna_keep(series) == series

\* Series.dropna(): the non-null entries, in order
IsPrice(v) == v # NaN
dropna(series) == SelectSeq(series, IsPrice)

\* Series.pct_change().dropna(): r[t] = Close[t] / Close[t-1] - 1, t >= 1
pct_change(close) ==
    [t \in 1..(Len(close) - 1) |-> Fr(close[t + 1] - close[t], close[t])]

RECURSIVE FrSum(_)
FrSum(xs) ==
    IF xs = <<>> THEN FrInt(0)
    ELSE FrAdd(FrSum(SubSeq(xs, 1, Len(xs) - 1)), xs[Len(xs)])

RECURSIVE FrProd(_)
FrProd(xs) ==
    IF xs = <<>> THEN FrInt(1)
    ELSE FrMul(FrProd(SubSeq(xs, 1, Len(xs) - 1)), xs[Len(xs)])

\* calculate_volatility: np.std(returns, ddof=1) * sqrt(252), represented by
\* its square 252 * var(returns); not-a-number for fewer than two returns
calculate_volatility(returns_series) ==
    LET n == Len(returns_series)
        mean == FrDiv(FrSum(returns_series), FrInt(n))
        dev == [i \in 1..n |->
                   FrMul(FrSub(returns_series[i], mean),
                         FrSub(returns_series[i], mean))]
    IN  IF n < 2 THEN NaNValue
        ELSE FrMul(FrInt(252), FrDiv(FrSum(dev), FrInt(n - 1)))

\* calculate_cumulative_return: (1 + returns).prod() - 1
calculate_cumulative_return(returns_series) ==
    FrSub(FrProd([i \in 1..Len(returns_series) |->
                     FrAdd(FrInt(1), returns_series[i])]),
          FrInt(1))

\* a plausible slip: the peak is a rolling maximum over the last two closes
cummaxWindow(close) ==
    [t \in 1..Len(close) |-> SeqMax(SubSeq(close, Max(1, t - 1), t))]

\* Series.cummax(): the running maximum from the start of the series
cummax(close) == [t \in 1..Len(close) |-> SeqMax(SubSeq(close, 1, t))]

FrSeqMin(xs) == CHOOSE x \in {xs[i] : i \in DOMAIN xs} :
                    \A i \in DOMAIN xs : ~FrLess(xs[i], x)

\* calculate_max_drawdown: min over t of Close[t] / peak[t] - 1;
\* the minimum of an empty series is not-a-number
calculate_max_drawdown(close) ==
    LET peak == cummax(close)
        drawdown == [t \in 1..Len(close) |->
                        FrSub(Fr(close[t], peak[t]), FrInt(1))]
    IN  IF close = <<>> THEN NaNValue ELSE FrSeqMin(drawdown)

\* Series.rolling(window).mean(): not-a-number until the window is full
rolling_mean(close, window) ==
    [t \in 1..Len(close) |->
        IF t < window THEN NaNValue
        ELSE Fr(FrSum([i \in 1..window |->
                          FrInt(close[t - window + i])]).num, window)]

\* ------------------------------------------------------- map_reduce_stats
AllMetrics == {"mean", "min", "max", "std", "returns", "moving_average",
               "volatility", "cumulative_return", "max_drawdown"}

EmptyMap == [k \in {} |-> NaNValue]

\* f"ma_{moving_average_days}"
MaKey(d) == "ma_" \o ToString(d)

\* n_workers = min(cpu_count(), 4) or 1
NWorkers(c) == LET m == Min(c, 4) IN IF m = 0 THEN 1 ELSE m

\* a plausible slip: every statistic is copied into the results
StatsKeysAll(ms) == {"mean", "min", "max", "std"}

\* lines 91-93: for k in [...]: if k in metrics: results[k] = stats.get(k)
StatsKeys(ms) == {k \in {"mean", "min", "max", "std"} : k \in ms}

\* lines 89-120: the results dictionary built from the reduced values
BuildResults(close, stats, ms, d) ==
    LET hasReturns == ms \cap {"returns", "volatility", "cumulative_return"} # {}
        returns_series == IF hasReturns THEN pct_change(close) ELSE <<>>
        keys == StatsKeys(ms)
                \cup {k \in {"returns", "volatility", "cumulative_return"} :
                         k \in ms /\ hasReturns}
                \cup {k \in {"max_drawdown"} : k \in ms}
                \cup {MaKey(d) : k \in {"moving_average"} \cap ms}
    IN  [k \in keys |->
            CASE k = "mean" -> stats.mean
              [] k = "min" -> stats.min
              [] k = "max" -> stats.max
              [] k = "std" -> stats.std
              [] k = "returns" -> returns_series
              [] k = "volatility" -> calculate_volatility(returns_series)
              [] k = "cumulative_return" ->
                     calculate_cumulative_return(returns_series)
              [] k = "max_drawdown" -> calculate_max_drawdown(close)
              [] OTHER -> rolling_mean(close, d)]

\* a plausible slip: results collected in completion order (imap_unordered)
PoolMapUnordered(o, ord) == [i \in 1..Len(ord) |-> o[ord[i]]]

\* Pool.map: the outputs, one per submitted chunk, at the chunk's position
PoolMapResult(o, ord) == [i \in 1..Len(o) |-> o[i]]

\* a plausible slip: a failed chunk is skipped and the rest is returned
PoolMapOutcomeSkipFailed(t) ==
    IF \A i \in DOMAIN t : t[i] # "pending" THEN "ok" ELSE "wait"

\* Pool.map blocks until every chunk has a result and re-raises a worker's
\* exception as soon as one chunk has failed
PoolMapOutcome(t) ==
    IF \E i \in DOMAIN t : t[i] = "failed" THEN "raise"
    ELSE IF \A i \in DOMAIN t : t[i] = "done" THEN "ok"
    ELSE "wait"

Pending == [kind |-> "pending", err |-> "", map |-> EmptyMap]
Raised(e) == [kind |-> "error", err |-> e, map |-> EmptyMap]
Returned(m) == [kind |-> "ResultMap", err |-> "", map |-> m]

\* lines 75-85: defaults, the Close column, the chunks, the pool is created
\* and every chunk is submitted
Call ==
    /\ pc = "idle"
    /\ metrics' = IF metricsArg.given THEN metricsArg.names
                  ELSE {"mean", "min", "max"}
    /\ IF ~df.hasClose
       THEN /\ pc' = "raised"
            /\ ret' = Raised("KeyError")
            /\ UNCHANGED <<close_series, n_workers, chunks, pool, task, out,
                           order, results>>
       ELSE LET cs == dropna(df.Close)
                nw == NWorkers(cpu)
                ch == chunkify(cs, nw)
            IN  /\ close_series' = cs
                /\ n_workers' = nw
                /\ IF ch.raised # ""
                   THEN /\ pc' = "raised"
                        /\ ret' = Raised(ch.raised)
                        /\ UNCHANGED <<chunks, pool, task, out, order, results>>
                   ELSE /\ chunks' = ch.chunks
                        /\ results' = EmptyMap
                        /\ pool' = "open"
                        /\ task' = [i \in 1..Len(ch.chunks) |-> "pending"]
                        /\ out' = [i \in 1..Len(ch.chunks) |-> <<>>]
                        /\ order' = <<>>
                        /\ pc' = "map"
                        /\ ret' = Pending
    /\ UNCHANGED <<call, mapped, all_values, prev>>
    /\ UNCHANGED <<chunkVars, scoreVars, indVars, argVars>>

\* a plausible slip: the workers append to one shared list of outputs
WorkerReturnShared(i) ==
    /\ pc = "map" /\ pool = "open"
    /\ task[i] = "pending"
    /\ task' = [task EXCEPT ![i] = "done"]
    /\ out' = [out EXCEPT ![Len(order) + 1] = map_close(chunks[i])]
    /\ order' = Append(order, i)
    /\ UNCHANGED <<pc, call, metrics, close_series, n_workers, chunks, pool,
                   mapped, all_values, results, ret, prev>>
    /\ UNCHANGED <<chunkVars, scoreVars, indVars, argVars>>

\* a pool worker runs map_close on chunk i and delivers its output
WorkerReturn(i) ==
    /\ pc = "map" /\ pool = "open"
    /\ task[i] = "pending"
    /\ task' = [task EXCEPT ![i] = "done"]
    /\ out' = [out EXCEPT ![i] = map_close(chunks[i])]
    /\ order' = Append(order, i)
    /\ UNCHANGED <<pc, call, metrics, close_series, n_workers, chunks, pool,
                   mapped, all_values, results, ret, prev>>
    /\ UNCHANGED <<chunkVars, scoreVars, indVars, argVars>>

\* a pool worker raises while mapping chunk i
WorkerRaise(i) ==
    /\ pc = "map" /\ pool = "open"
    /\ task[i] = "pending"
    /\ task' = [task EXCEPT ![i] = "failed"]
    /\ UNCHANGED <<pc, call, metrics, close_series, n_workers, chunks, pool,
                   out, order, mapped, all_values, results, ret, prev>>
    /\ UNCHANGED <<chunkVars, scoreVars, indVars, argVars>>

\* lines 85-120: pool.map returns, the with block terminates the pool, the
\* outputs are reduced and the requested results are built and returned
MapReturn ==
    /\ pc = "map"
    /\ PoolMapOutcome(task) = "ok"
    /\ pool' = "terminated"
    /\ LET m == PoolMapResult(out, order)
           av == reduce_concat(m)
           stats == compute_stats_from_list(av)
       IN  /\ mapped' = m
           /\ all_values' = av
           /\ IF stats.raised # ""
              THEN /\ pc' = "raised"
                   /\ ret' = Raised(stats.raised)
                   /\ UNCHANGED results
              ELSE /\ results' = BuildResults(close_series, stats, metrics,
                                              moving_average_days)
                   /\ ret' = Returned(results')
                   /\ pc' = "returned"
    /\ UNCHANGED <<call, metrics, close_series, n_workers, chunks, task, out,
                   order, prev>>
    /\ UNCHANGED <<chunkVars, scoreVars, indVars, argVars>>

\* a plausible slip: the pool is terminated on the success path only
MapRaiseLeakPool ==
    /\ pc = "map"
    /\ PoolMapOutcome(task) = "raise"
    /\ pc' = "raised"
    /\ ret' = Raised("WorkerError")
    /\ UNCHANGED <<call, metrics, close_series, n_workers, chunks, task, out,
                   order, mapped, all_values, results, prev, pool>>
    /\ UNCHANGED <<chunkVars, scoreVars, indVars, argVars>>

\* line 85: pool.map re-raises the worker's exception; the with block
\* terminates the pool and the exception leaves map_reduce_stats
MapRaise ==
    /\ pc = "map"
    /\ PoolMapOutcome(task) = "raise"
    /\ pool' = "terminated"
    /\ pc' = "raised"
    /\ ret' = Raised("WorkerError")
    /\ UNCHANGED <<call, metrics, close_series, n_workers, chunks, task, out,
                   order, mapped, all_values, results, prev>>
    /\ UNCHANGED <<chunkVars, scoreVars, indVars, argVars>>

\* the caller calls map_reduce_stats again with the same arguments; the
\* locals of the finished call are gone
CallAgain ==
    /\ pc \in {"returned", "raised"}
    /\ call < 2
    /\ call' = call + 1
    /\ prev' = ret
    /\ pc' = "idle"
    /\ ret' = Pending
    /\ metrics' = {}
    /\ close_series' = <<>>
    /\ n_workers' = 0
    /\ chunks' = <<>>
    /\ task' = <<>>
    /\ out' = <<>>
    /\ order' = <<>>
    /\ mapped' = <<>>
    /\ all_values' = <<>>
    /\ results' = EmptyMap
    /\ UNCHANGED pool
    /\ UNCHANGED <<chunkVars, scoreVars, indVars, argVars>>

CallIdle ==
    /\ pc = "off" /\ call = 0 /\ metrics = {} /\ close_series = <<>>
    /\ n_workers = 0 /\ chunks = <<>> /\ pool = "none" /\ task = <<>>
    /\ out = <<>> /\ order = <<>> /\ mapped = <<>> /\ all_values = <<>>
    /\ results = EmptyMap /\ ret = Pending /\ prev = Pending
    /\ df = [hasClose |-> FALSE, Close |-> <<>>, Index |-> <<>>]
    /\ metricsArg = [given |-> FALSE, names |-> {}]
    /\ moving_average_days = 10
    /\ cpu = 1

CallStart ==
    /\ pc = "idle" /\ call = 1 /\ metrics = {} /\ close_series = <<>>
    /\ n_workers = 0 /\ chunks = <<>> /\ pool = "none" /\ task = <<>>
    /\ out = <<>> /\ order = <<>> /\ mapped = <<>> /\ all_values = <<>>
    /\ results = EmptyMap /\ ret = Pending /\ prev = Pending

ChunkIdle == cseq = <<>> /\ cn = 1 /\ cout = chunkify(<<>>, 1) /\ cpc = "off"
ScoreIdle ==
    /\ sret = 0 /\ svol = 0 /\ sout = NaNValue /\ spc = "off"
    /\ srisk = "" /\ rpc = "off"
IndIdle ==
    /\ iclose = <<>> /\ iperiod = 14 /\ ispans = <<12, 26, 9>>
    /\ irsi = <<>> /\ ibb = <<>> /\ imacd = <<>> /\ idone = {}

\* a DataFrame: whether it has a Close column, the column, and the timestamps
\* of its index
NoClose == [hasClose |-> FALSE, Close |-> <<>>, Index |-> <<>>]
Frame(s, ix) == [hasClose |-> TRUE, Close |-> s, Index |-> ix]
WithClose(s) == Frame(s, [i \in 1..Len(s) |-> i])
\* timestamps of n rows: ascending, descending, all equal
IndexOrders(n) == {[i \in 1..n |-> i], [i \in 1..n |-> n + 1 - i],
                   [i \in 1..n |-> 1]}

MapReduceNext ==
    \/ Call
    \/ \E i \in 1..Len(chunks) : WorkerReturn(i)
    \/ \E i \in 1..Len(chunks) : WorkerRaise(i)
    \/ MapReturn
    \/ MapRaise
    \/ CallAgain

\* map_reduce_stats over every price series up to MaxLen, every cpu count
Init ==
    /\ ChunkIdle /\ ScoreIdle /\ IndIdle /\ CallStart
    /\ df \in {NoClose}
             \cup UNION {{Frame(s, ix) : ix \in IndexOrders(Len(s))} :
                            s \in SeqsUpTo(Prices \cup {NaN}, MaxLen)}
    /\ metricsArg \in {[given |-> FALSE, names |-> {}],
                       [given |-> TRUE, names |-> {"std", "max_drawdown"}],
                       [given |-> TRUE, names |-> AllMetrics]}
    /\ moving_average_days \in {2}
    /\ cpu \in 1..MaxCpu

Next == MapReduceNext

Spec == Init /\ [][Next]_vars

\* map_reduce_stats over a few series, every set of requested metrics
MetricsInit ==
    /\ ChunkIdle /\ ScoreIdle /\ IndIdle /\ CallStart
    /\ df \in {NoClose, WithClose(<<>>), WithClose(<<NaN>>), WithClose(<<2>>),
               WithClose(<<1, 3>>), WithClose(<<3, NaN, 1>>),
               WithClose(<<2, 3, 1>>)}
    /\ metricsArg \in {[given |-> FALSE, names |-> {}]}
                      \cup {[given |-> TRUE, names |-> ms] :
                               ms \in SUBSET AllMetrics}
    /\ moving_average_days \in Windows
    /\ cpu \in {2}

SpecMetrics == MetricsInit /\ [][Next]_vars

\* ------------------------------------------------------ chunkify on its own
CallChunkify ==
    /\ cpc = "in"
    /\ cout' = chunkify(cseq, cn)
    /\ cpc' = "out"
    /\ UNCHANGED <<cseq, cn>>
    /\ UNCHANGED <<scoreVars, indVars, argVars, callVars>>

ChunkInit ==
    /\ ScoreIdle /\ IndIdle /\ CallIdle
    /\ cseq \in SeqsUpTo(Prices, MaxLen)
    /\ cn \in (0 - MaxNegChunks)..MaxChunks
    /\ cout = chunkify(<<>>, 1)
    /\ cpc = "in"

ChunkNext == CallChunkify

SpecChunk == ChunkInit /\ [][ChunkNext]_vars

\* -------------------------------------------- calcular_score_performance
FrMin(x, y) == IF FrLess(y, x) THEN y ELSE x
FrMax(x, y) == IF FrLess(x, y) THEN y ELSE x

\* round(x, 1): the nearest multiple of 0.1, ties to the even tenth
Round1(x) ==
    LET n == 10 * x.num
        f == n \div x.den
        r == n % x.den
        up == (2 * r > x.den) \/ (2 * r = x.den /\ f % 2 = 1)
    IN  Fr(IF up THEN f + 1 ELSE f, 10)

\* a plausible slip: the penalty is added instead of subtracted
calcular_score_plus_penalty(retorno_acumulado, volatilidade) ==
    LET score_retorno ==
            FrMin(FrMax(FrDiv(FrAdd(FrMul(retorno_acumulado, FrInt(100)),
                                    FrInt(50)),
                              FrInt(10)),
                        FrInt(0)),
                  FrInt(10))
        penalidade_volatilidade ==
            FrMin(FrDiv(FrMul(volatilidade, FrInt(100)), FrInt(20)), FrInt(5))
        score_final ==
            FrMax(FrAdd(score_retorno, penalidade_volatilidade), FrInt(0))
    IN  Round1(score_final)

\* calcular_score_performance(retorno_acumulado, volatilidade), lines 43-49
calcular_score_performance(retorno_acumulado, volatilidade) ==
    LET score_retorno ==
            FrMin(FrMax(FrDiv(FrAdd(FrMul(retorno_acumulado, FrInt(100)),
                                    FrInt(50)),
                              FrInt(10)),
                        FrInt(0)),
                  FrInt(10))
        penalidade_volatilidade ==
            FrMin(FrDiv(FrMul(volatilidade, FrInt(100)), FrInt(20)), FrInt(5))
        score_final ==
            FrMax(FrSub(score_retorno, penalidade_volatilidade), FrInt(0))
    IN  Round1(score_final)

\* a plausible slip: the comparisons are <= instead of <
obter_cor_semaforo_inclusive(volatilidade) ==
    LET vol_pct == FrMul(volatilidade, FrInt(100))
    IN  IF ~FrLess(FrInt(20), vol_pct) THEN "Baixo Risco"
        ELSE IF ~FrLess(FrInt(40), vol_pct) THEN "Risco Moderado"
        ELSE "Alto Risco"

\* a plausible slip: the moderate tier is lost
obter_cor_semaforo_two_tiers(volatilidade) ==
    LET vol_pct == FrMul(volatilidade, FrInt(100))
    IN  IF FrLess(vol_pct, FrInt(20)) THEN "Baixo Risco"
        ELSE "Alto Risco"

\* obter_cor_semaforo(volatilidade), lines 54-60: the risk text returned
\* (each text comes with its own colour and emoji)
obter_cor_semaforo(volatilidade) ==
    LET vol_pct == FrMul(volatilidade, FrInt(100))
    IN  IF FrLess(vol_pct, FrInt(20)) THEN "Baixo Risco"
        ELSE IF FrLess(vol_pct, FrInt(40)) THEN "Risco Moderado"
        ELSE "Alto Risco"

\* the inputs are multiples of 0.05 (5 percent)
CallSemaforo ==
    /\ rpc = "in"
    /\ srisk' = obter_cor_semaforo(Fr(svol, 20))
    /\ rpc' = "out"
    /\ UNCHANGED <<sret, svol, sout, spc>>
    /\ UNCHANGED <<chunkVars, indVars, argVars, callVars>>

\* the inputs are multiples of 0.05 (5 percent)
CallScore ==
    /\ spc = "in"
    /\ sout' = calcular_score_performance(Fr(sret, 20), Fr(svol, 20))
    /\ spc' = "out"
    /\ UNCHANGED <<sret, svol, srisk, rpc>>
    /\ UNCHANGED <<chunkVars, indVars, argVars, callVars>>

ScoreInit ==
    /\ ChunkIdle /\ IndIdle /\ CallIdle
    /\ sret \in (0 - MaxRetStep)..MaxRetStep
    /\ svol \in (0 - MaxVolStep)..MaxVolStep
    /\ sout = NaNValue
    /\ spc = "in"
    /\ srisk = ""
    /\ rpc = "in"

ScoreNext == CallScore \/ CallSemaforo

SpecScore == ScoreInit /\ [][ScoreNext]_vars

\* ------------------------------------------------- technical indicators
\* longest close series handed to the indicators
MaxIndLen == 4
\* close prices of the indicator series
IndPrices == {1, 2, 3, 4}
\* periodo values
Periods == {1, 2, 3}
\* (rapido, lento, sinal) spans
SpanSets == {<<1, 3, 3>>, <<2, 3, 3>>, <<2, 5, 3>>}

\* Series.rolling(window).mean() over float entries: not-a-number until the
\* window holds `window` entries (min_periods = window)
rolling_fr_mean(xs, window) ==
    [t \in 1..Len(xs) |->
        IF t < window THEN NaNValue
        ELSE FrDiv(FrSum(SubSeq(xs, t - window + 1, t)), FrInt(window))]

\* Series.rolling(window).std(): represented by its radicand, the sample
\* variance (ddof = 1) of the window; not-a-number until the window is full
\* and for a window of one entry
rolling_fr_var(xs, window) ==
    [t \in 1..Len(xs) |->
        IF t < window THEN NaNValue
        ELSE LET w == SubSeq(xs, t - window + 1, t)
                 mean == FrDiv(FrSum(w), FrInt(window))
                 dev == [i \in 1..window |->
                            FrMul(FrSub(w[i], mean), FrSub(w[i], mean))]
             IN  FrDiv(FrSum(dev), FrInt(window - 1))]

\* Series.diff(): not-a-number at the first index
diff(close) ==
    [t \in 1..Len(close) |->
        IF t = 1 THEN NaNValue ELSE FrInt(close[t] - close[t - 1])]

\* float division of pandas: x / 0 is +inf for x > 0 and not-a-number for
\* x = 0. RSI = 100 - 100 / (1 + rs), which is 100 for rs = +inf.
RsiOf(ganho, perda) ==
    IF IsNaN(ganho) \/ IsNaN(perda) THEN NaNValue
    ELSE IF perda.num = 0
         THEN IF ganho.num = 0 THEN NaNValue ELSE FrInt(100)
         ELSE FrSub(FrInt(100),
                    FrDiv(FrInt(100), FrAdd(FrInt(1), FrDiv(ganho, perda))))

\* a plausible slip: rs = perda / ganho
calcular_rsi_inverted(close, periodo) ==
    LET delta == diff(close)
        up == [t \in 1..Len(close) |->
                  IF ~IsNaN(delta[t]) /\ delta[t].num > 0
                  THEN delta[t] ELSE FrInt(0)]
        down == [t \in 1..Len(close) |->
                    IF ~IsNaN(delta[t]) /\ delta[t].num < 0
                    THEN FrSub(FrInt(0), delta[t]) ELSE FrInt(0)]
        ganho == rolling_fr_mean(up, periodo)
        perda == rolling_fr_mean(down, periodo)
    IN  [ganho |-> ganho, perda |-> perda,
         rsi |-> [t \in 1..Len(close) |-> RsiOf(perda[t], ganho[t])]]

\* calcular_rsi(df, periodo), lines 13-18. delta.where(cond, 0) puts 0
\* wherever cond is false, also where delta is not-a-number (index 0).
\* The gain and loss averages are kept beside the returned rsi.
calcular_rsi(close, periodo) ==
    LET delta == diff(close)
        up == [t \in 1..Len(close) |->
                  IF ~IsNaN(delta[t]) /\ delta[t].num > 0
                  THEN delta[t] ELSE FrInt(0)]
        down == [t \in 1..Len(close) |->
                    IF ~IsNaN(delta[t]) /\ delta[t].num < 0
                    THEN FrSub(FrInt(0), delta[t]) ELSE FrInt(0)]
        ganho == rolling_fr_mean(up, periodo)
        perda == rolling_fr_mean(down, periodo)
    IN  [ganho |-> ganho, perda |-> perda,
         rsi |-> [t \in 1..Len(close) |-> RsiOf(ganho[t], perda[t])]]

\* a band entry mid + sign * sqrt(dev2); not-a-number when either part is
Band(mid, sign, dev2) == [mid |-> mid, sign |-> sign, dev2 |-> dev2]
BandIsNaN(b) == IsNaN(b.mid) \/ IsNaN(b.dev2)

\* calcular_bandas_bollinger(df, periodo, num_std), lines 23-27
calcular_bandas_bollinger(close, periodo, num_std) ==
    LET xs == [t \in 1..Len(close) |-> FrInt(close[t])]
        sma == rolling_fr_mean(xs, periodo)
        var == rolling_fr_var(xs, periodo)
        dev2 == [t \in 1..Len(close) |->
                    FrMul(FrInt(num_std * num_std), var[t])]
    IN  [sma |-> sma,
         banda_superior |->
             [t \in 1..Len(close) |-> Band(sma[t], 1, dev2[t])],
         banda_inferior |->
             [t \in 1..Len(close) |-> Band(sma[t], -1, dev2[t])]]

\* Series.ewm(span, adjust=False).mean(): y[0] = x[0],
\* y[t] = (1 - a) * y[t-1] + a * x[t] with a = 2 / (span + 1)
RECURSIVE ewm_mean(_, _)
ewm_mean(xs, span) ==
    IF Len(xs) <= 1 THEN xs
    ELSE LET a == Fr(2, span + 1)
             y == ewm_mean(SubSeq(xs, 1, Len(xs) - 1), span)
         IN  Append(y, FrAdd(FrMul(FrSub(FrInt(1), a), y[Len(y)]),
                             FrMul(a, xs[Len(xs)])))

\* a plausible slip: histograma = linha_sinal - macd
calcular_macd_flipped(close, rapido, lento, sinal) ==
    LET xs == [t \in 1..Len(close) |-> FrInt(close[t])]
        ema_rapida == ewm_mean(xs, rapido)
        ema_lenta == ewm_mean(xs, lento)
        macd == [t \in 1..Len(close) |-> FrSub(ema_rapida[t], ema_lenta[t])]
        linha_sinal == ewm_mean(macd, sinal)
    IN  [ema_rapida |-> ema_rapida, ema_lenta |-> ema_lenta, macd |-> macd,
         linha_sinal |-> linha_sinal,
         histograma |-> [t \in 1..Len(close) |->
                            FrSub(linha_sinal[t], macd[t])]]

\* calcular_macd(df, rapido, lento, sinal), lines 32-37; the two averages
\* are kept beside the returned macd, linha_sinal and histograma
calcular_macd(close, rapido, lento, sinal) ==
    LET xs == [t \in 1..Len(close) |-> FrInt(close[t])]
        ema_rapida == ewm_mean(xs, rapido)
        ema_lenta == ewm_mean(xs, lento)
        macd == [t \in 1..Len(close) |-> FrSub(ema_rapida[t], ema_lenta[t])]
        linha_sinal == ewm_mean(macd, sinal)
    IN  [ema_rapida |-> ema_rapida, ema_lenta |-> ema_lenta, macd |-> macd,
         linha_sinal |-> linha_sinal,
         histograma |-> [t \in 1..Len(close) |->
                            FrSub(macd[t], linha_sinal[t])]]

CallRsi ==
    /\ "rsi" \notin idone
    /\ iperiod \in Periods
    /\ irsi' = calcular_rsi(iclose, iperiod)
    /\ idone' = idone \cup {"rsi"}
    /\ UNCHANGED <<iclose, iperiod, ispans, ibb, imacd>>
    /\ UNCHANGED <<chunkVars, scoreVars, argVars, callVars>>

CallBollinger ==
    /\ "bollinger" \notin idone
    /\ iperiod \in Periods
    /\ ibb' = calcular_bandas_bollinger(iclose, iperiod, 2)
    /\ idone' = idone \cup {"bollinger"}
    /\ UNCHANGED <<iclose, iperiod, ispans, irsi, imacd>>
    /\ UNCHANGED <<chunkVars, scoreVars, argVars, callVars>>

CallMacd ==
    /\ "macd" \notin idone
    /\ ispans \in SpanSets
    /\ imacd' = calcular_macd(iclose, ispans[1], ispans[2], ispans[3])
    /\ idone' = idone \cup {"macd"}
    /\ UNCHANGED <<iclose, iperiod, ispans, irsi, ibb>>
    /\ UNCHANGED <<chunkVars, scoreVars, argVars, callVars>>

IndInit ==
    /\ ChunkIdle /\ ScoreIdle /\ CallIdle
    /\ iclose \in SeqsUpTo(IndPrices, MaxIndLen)
    /\ iperiod \in Periods
    /\ ispans \in SpanSets
    /\ irsi = <<>> /\ ibb = <<>> /\ imacd = <<>> /\ idone = {}

IndNext == CallRsi \/ CallBollinger \/ CallMacd

SpecInd == IndInit /\ [][IndNext]_vars

\* ================================================================= claims

\* C1: for every sequence of length N >= 1 and every workerCount >= 1,
\* chunkify raises nothing and the concatenation of its chunks, in the order
\* emitted, is exactly the original sequence.
C1_PartitionCompleteness ==
    (cpc = "out" /\ Len(cseq) >= 1 /\ cn >= 1) =>
        /\ cout.raised = ""
        /\ reduce_concat(cout.chunks) = cseq

C1_Witness ==
    /\ cpc = "out" /\ Len(cseq) = 3 /\ cn = 2
    /\ Len(cout.chunks) = 2
    /\ cseq[1] # cseq[2] /\ cseq[2] # cseq[3]

\* C7: with base = N div workerCount and remainder = N mod workerCount, the
\* emitted chunks at positions 1..remainder have base+1 elements, every later
\* emitted chunk has base elements, and any two emitted chunks differ in size
\* by at most 1.
C7_BalancedSplit ==
    (cpc = "out" /\ cn >= 1) =>
        LET base == Len(cseq) \div cn
            remainder == Len(cseq) % cn
            size == [j \in 1..Len(cout.chunks) |-> Len(cout.chunks[j])]
        IN  /\ \A j \in DOMAIN size :
                   size[j] = IF j <= remainder THEN base + 1 ELSE base
            /\ \A a, b \in DOMAIN size : size[a] - size[b] <= 1

C7_Witness ==
    /\ cpc = "out" /\ Len(cseq) = 3 /\ cn = 2
    /\ Len(cout.chunks) = 2
    /\ Len(cout.chunks[1]) = 2 /\ Len(cout.chunks[2]) = 1

\* C8: for every N >= 0 and workerCount >= 1, no emitted chunk is empty, the
\* number of emitted chunks is min(N, workerCount) (so at most workerCount),
\* and fewer than workerCount chunks are emitted only when workerCount > N.
C8_NoEmptyChunks ==
    (cpc = "out" /\ cn >= 1) =>
        /\ \A j \in 1..Len(cout.chunks) : cout.chunks[j] # <<>>
        /\ Len(cout.chunks) = Min(Len(cseq), cn)
        /\ Len(cout.chunks) <= cn
        /\ (Len(cout.chunks) < cn => cn > Len(cseq))

C8_Witness ==
    /\ cpc = "out" /\ Len(cseq) = 2 /\ cn = 5
    /\ Len(cout.chunks) = 2

\* C9 (as claimed): chunkify never raises, and for workerCount <= 0 it
\* returns what it returns for workerCount = 1.
C9_ClampClaim ==
    cpc = "out" =>
        /\ cout.raised = ""
        /\ (cn <= 0 => cout = chunkify(cseq, 1))

\* C2: whatever order the workers complete in, the outputs of pool.map are in
\* the order of the submitted chunks and all_values is the Close series
\* (null entries dropped) in its original order.
C2_OrderPreserved ==
    pc = "returned" =>
        /\ Len(mapped) = Len(chunks)
        /\ \A i \in 1..Len(chunks) : mapped[i] = chunks[i]
        /\ all_values = dropna(df.Close)

C2_Witness ==
    /\ pc = "returned"
    /\ Len(chunks) = 3
    /\ order = <<3, 1, 2>>
    /\ all_values = <<1, 2, 3>>

\* C3: once a worker has raised, the call never returns a ResultMap: while it
\* runs nothing has been delivered, and when it is over it has ended in an
\* error with no results, also when other chunks were mapped successfully.
C3_AllOrNothing ==
    (pc \in {"map", "returned", "raised"}
         /\ \E i \in DOMAIN task : task[i] = "failed") =>
        /\ pc # "returned"
        /\ ret.kind # "ResultMap"
        /\ ret.map = EmptyMap
        /\ (pc = "raised" => ret.kind = "error")

C3_Witness ==
    /\ pc = "raised"
    /\ ret = Raised("WorkerError")
    /\ \E i \in DOMAIN task : task[i] = "failed"
    /\ \E i \in DOMAIN task : task[i] = "done" /\ out[i] # <<>>

\* C4: when a set of metrics is requested, the returned ResultMap has the key
\* of a metric (its name; ma_<window> for moving_average) exactly when the
\* metric was requested, and no other key.
MetricKey(m, d) == IF m = "moving_average" THEN MaKey(d) ELSE m

C4_LazyOutput ==
    (pc = "returned" /\ metricsArg.given) =>
        /\ \A m \in AllMetrics :
               (MetricKey(m, moving_average_days) \in DOMAIN ret.map)
                   <=> (m \in metricsArg.names)
        /\ DOMAIN ret.map \subseteq
               {MetricKey(m, moving_average_days) : m \in AllMetrics}

C4_Witness ==
    /\ pc = "returned" /\ metricsArg.given
    /\ metricsArg.names = {"std", "moving_average", "volatility"}
    /\ Len(close_series) = 1
    /\ DOMAIN ret.map = {"std", MaKey(moving_average_days), "volatility"}

\* C5: a second call with the same series, metrics and window returns the
\* ResultMap the first call returned, whatever order the workers completed in
\* during either call.
C5_Deterministic ==
    (call = 2 /\ pc = "returned" /\ prev.kind = "ResultMap") =>
        ret.map = prev.map

C5_Witness ==
    /\ call = 2 /\ pc = "returned" /\ prev.kind = "ResultMap"
    /\ Len(order) = 3 /\ order[1] = 3
    /\ close_series = <<3, 2, 2>>
    /\ "mean" \in DOMAIN ret.map

\* C6: a series with no Close column or with zero rows never yields a
\* ResultMap, whatever metrics are requested: the call ends in an error.
C6_EmptyRejected ==
    (~df.hasClose \/ Len(df.Close) = 0) =>
        /\ pc # "returned"
        /\ ret.kind # "ResultMap"
        /\ (pc = "raised" => ret.kind = "error")

C6_Witness ==
    /\ df = WithClose(<<>>)
    /\ pc = "raised"
    /\ ret = Raised("ValueError")
    /\ metricsArg = [given |-> TRUE, names |-> {}]

\* C10 (as claimed): for every pair of arguments, negative ones included, the
\* score lies in [0, 10].
C10_ScoreRangeClaim ==
    spc = "out" => (~FrLess(sout, FrInt(0)) /\ ~FrLess(FrInt(10), sout))

\* C11: for a fixed volatility the score does not decrease when the
\* cumulative return grows, and for a fixed cumulative return it does not
\* increase when the volatility grows; rounding to one decimal keeps both.
C11_ScoreMonotone ==
    spc = "out" =>
        /\ \A r \in sret..MaxRetStep :
               ~FrLess(calcular_score_performance(Fr(r, 20), Fr(svol, 20)),
                       sout)
        /\ \A v \in svol..MaxVolStep :
               ~FrLess(sout,
                       calcular_score_performance(Fr(sret, 20), Fr(v, 20)))

C11_Witness ==
    /\ spc = "out" /\ sret = 0 /\ svol = 3
    /\ sout = Fr(42, 10)
    /\ FrLess(calcular_score_performance(Fr(sret, 20), Fr(svol + 1, 20)), sout)
    /\ FrLess(sout, calcular_score_performance(Fr(sret + 1, 20), Fr(svol, 20)))

\* C12: the risk classification returns exactly one of three tiers for every
\* volatility v: Low when v*100 < 20, Moderate when 20 <= v*100 < 40, High
\* otherwise.
C12_RiskTiers ==
    rpc = "out" =>
        /\ srisk \in {"Baixo Risco", "Risco Moderado", "Alto Risco"}
        /\ (srisk = "Baixo Risco") <=> (5 * svol < 20)
        /\ (srisk = "Risco Moderado") <=> (20 <= 5 * svol /\ 5 * svol < 40)
        /\ (srisk = "Alto Risco") <=> (40 <= 5 * svol)

C12_Witness == rpc = "out" /\ 5 * svol = 35 /\ srisk = "Risco Moderado"

\* C13 (as claimed): a volatility with v*100 = 20 is Low and one with
\* v*100 = 40 is Moderate.
C13_BoundaryClaim ==
    rpc = "out" =>
        /\ (5 * svol = 20 => srisk = "Baixo Risco")
        /\ (5 * svol = 40 => srisk = "Risco Moderado")

\* C13 (amended): each tier includes its lower bound and excludes its upper
\* bound: v*100 = 20 is Moderate and v*100 = 40 is High.
C13_Boundary ==
    rpc = "out" =>
        /\ (5 * svol = 20 => srisk = "Risco Moderado")
        /\ (5 * svol = 40 => srisk = "Alto Risco")

C13_Witness == rpc = "out" /\ 5 * svol = 20 /\ srisk = "Risco Moderado"

\* C14: for a non-empty series of positive closes the max_drawdown returned
\* is the minimum over t of Close[t]/peak[t] - 1, peak[t] being the largest
\* close from the start of the series up to t; it is never positive, and it is
\* 0 exactly when no close is below an earlier close. Closes 100, 120, 90, 110
\* give -0.25.
C14_MaxDrawdown ==
    /\ calculate_max_drawdown(<<100, 120, 90, 110>>) = Fr(-1, 4)
    /\ (pc = "returned" /\ "max_drawdown" \in DOMAIN ret.map) =>
           LET c == close_series
               v == ret.map["max_drawdown"]
               Peak(t) == CHOOSE p \in {c[s] : s \in 1..t} :
                              \A s \in 1..t : c[s] <= p
               DD(t) == Fr(c[t] - Peak(t), Peak(t))
           IN  /\ \E t \in 1..Len(c) : v = DD(t)
               /\ \A t \in 1..Len(c) : ~FrLess(DD(t), v)
               /\ ~FrLess(FrInt(0), v)
               /\ (v = FrInt(0)) <=>
                      (\A t \in 1..Len(c) : \A s \in 1..t : c[s] <= c[t])

C14_Witness ==
    /\ pc = "returned"
    /\ close_series = <<3, 2, 1>>
    /\ "max_drawdown" \in DOMAIN ret.map
    /\ ret.map["max_drawdown"] = Fr(-2, 3)

\* C15: for a strictly increasing close series with more than `period`
\* points, at every index past the warm-up window (0-based index >= period)
\* the average loss is 0 and the RSI is exactly 100.
StrictlyIncreasing(c) == \A t \in 2..Len(c) : c[t - 1] < c[t]

C15_RsiBoundary ==
    ("rsi" \in idone /\ StrictlyIncreasing(iclose) /\ Len(iclose) > iperiod) =>
        \A t \in (iperiod + 1)..Len(iclose) :
            /\ irsi.perda[t] = FrInt(0)
            /\ irsi.rsi[t] = FrInt(100)

C15_Witness ==
    /\ "rsi" \in idone
    /\ iclose = <<1, 2, 4>> /\ iperiod = 2
    /\ irsi.perda[3] = FrInt(0)
    /\ irsi.ganho[3] = Fr(3, 2)
    /\ irsi.rsi[3] = FrInt(100)

\* C16 (as claimed): wherever emaFast is at or below emaSlow at index k-1 and
\* above it at index k, the histogram changes sign at index k.
Sign(x) == IF x.num > 0 THEN 1 ELSE IF x.num < 0 THEN -1 ELSE 0
Crossover(k) ==
    /\ ~FrLess(imacd.ema_lenta[k - 1], imacd.ema_rapida[k - 1])
    /\ FrLess(imacd.ema_lenta[k], imacd.ema_rapida[k])

C16_CrossoverClaim ==
    "macd" \in idone =>
        \A k \in 2..Len(iclose) :
            Crossover(k) =>
                Sign(imacd.histograma[k - 1]) # Sign(imacd.histograma[k])

\* C16 (amended): at such an index k the macd line goes from <= 0 to > 0, and
\* (for a signal span above 1) the histogram at k is positive exactly when
\* macd[k] is above signalLine[k-1]; it need not change sign at k.
C16_Crossover ==
    "macd" \in idone =>
        \A k \in 2..Len(iclose) :
            Crossover(k) =>
                /\ imacd.macd[k - 1].num <= 0
                /\ imacd.macd[k].num > 0
                /\ (ispans[3] > 1 =>
                       ((imacd.histograma[k].num > 0)
                            <=> FrLess(imacd.linha_sinal[k - 1],
                                       imacd.macd[k])))

C16_Witness ==
    /\ "macd" \in idone
    /\ iclose = <<3, 1, 2, 3>> /\ ispans = <<1, 3, 3>>
    /\ Crossover(4)
    /\ imacd.histograma[3] = Fr(1, 4)
    /\ imacd.histograma[4] = Fr(3, 8)

\* C20 (as claimed): the RSI, Bollinger and moving-average outputs have one
\* entry per input index, and every entry whose window holds fewer than
\* `period` observations (0-based indices 0..period-1 for RSI, 0..period-2
\* for the moving average and the Bollinger bands) is not-a-number.
C20_WarmupClaim ==
    /\ "rsi" \in idone =>
           /\ Len(irsi.rsi) = Len(iclose)
           /\ \A t \in 1..Min(iperiod, Len(iclose)) : IsNaN(irsi.rsi[t])
    /\ "bollinger" \in idone =>
           /\ Len(ibb.sma) = Len(iclose)
           /\ Len(ibb.banda_superior) = Len(iclose)
           /\ Len(ibb.banda_inferior) = Len(iclose)
           /\ \A t \in 1..Min(iperiod - 1, Len(iclose)) :
                  /\ IsNaN(ibb.sma[t])
                  /\ BandIsNaN(ibb.banda_superior[t])
                  /\ BandIsNaN(ibb.banda_inferior[t])
    /\ (pc = "returned" /\ MaKey(moving_average_days) \in DOMAIN ret.map) =>
           LET ma == ret.map[MaKey(moving_average_days)]
           IN  /\ Len(ma) = Len(df.Close)
               /\ \A t \in 1..Min(moving_average_days - 1, Len(ma)) :
                      IsNaN(ma[t])

\* C17 (as claimed): a series with a null Close or with timestamps that are
\* not strictly ascending never reaches the partitioner or the workers and
\* never returns a ResultMap.
HasNull(d) == \E i \in DOMAIN d.Close : d.Close[i] = NaN
StrictlyAscending(ix) == \A i \in 2..Len(ix) : ix[i - 1] < ix[i]
BadInput == df.hasClose /\ (HasNull(df) \/ ~StrictlyAscending(df.Index))

C17_FailFastClaim == BadInput => pc \notin {"map", "returned"}

\* C17 (amended): such a series is not rejected. The null Close values are
\* dropped before the partitioner runs, the timestamps are never examined,
\* and the call goes on with the remaining closes in their given order; it
\* fails only when no close remains (ValueError, after the map stage) or when
\* a worker raises.
C17_NoValidation ==
    BadInput =>
        LET kept == SelectSeq(df.Close, LAMBDA v : v # NaN)
        IN  /\ pc \in {"map", "returned"} =>
                   /\ close_series = kept
                   /\ reduce_concat(chunks) = kept
            /\ pc = "returned" => all_values = kept
            /\ pc = "raised" =>
                   \/ ret.err = "WorkerError"
                   \/ ret.err = "ValueError" /\ kept = <<>>

C17_Witness ==
    /\ pc = "returned"
    /\ df = Frame(<<3, NaN, 1>>, <<3, 2, 1>>)
    /\ all_values = <<3, 1>>
    /\ ret.kind = "ResultMap"

\* C18: a pool exists only while a call is in its map stage: none before the
\* first call has started, none open once a call has returned or raised or
\* when the next call starts; the call returns only after every submitted
\* chunk has a result, raises out of the map stage only after a chunk has
\* failed, and in both cases has terminated its pool.
C18_PoolLifecycle ==
    /\ (pc = "idle" /\ call = 1) => pool = "none"
    /\ pool = "open" => pc = "map"
    /\ pc \in {"idle", "returned", "raised"} => pool # "open"
    /\ pc = "returned" =>
           /\ pool = "terminated"
           /\ \A i \in DOMAIN task : task[i] = "done"
           /\ Len(mapped) = Len(chunks)
    /\ (pc = "raised" /\ ret.err = "WorkerError") =>
           /\ pool = "terminated"
           /\ \E i \in DOMAIN task : task[i] = "failed"
    /\ (pc = "raised" /\ ret.err = "ValueError") =>
           /\ pool = "terminated"
           /\ \A i \in DOMAIN task : task[i] = "done"

C18_Witness ==
    /\ call = 2 /\ pc = "raised"
    /\ ret = Raised("WorkerError")
    /\ pool = "terminated"
    /\ prev.kind = "ResultMap"
    /\ \E i \in DOMAIN task : task[i] = "pending"

\* C19: no step of a call changes the caller's DataFrame; while the workers
\* run, the chunks and the Close series stay as submitted, a worker's step
\* writes only the output of its own chunk, a copy of that chunk, and leaves
\* every other output as it was.
C19_InputNotMutated ==
    [][/\ df' = df
       /\ (pc = "map" /\ pc' = "map") =>
              /\ chunks' = chunks
              /\ close_series' = close_series
              /\ \A j \in DOMAIN task :
                     /\ task'[j] = task[j] => out'[j] = out[j]
                     /\ (task[j] = "pending" /\ task'[j] = "done") =>
                            out'[j] = chunks[j]]_vars

C19_Witness ==
    /\ pc = "raised"
    /\ df = Frame(<<1, NaN, 2>>, <<1, 2, 3>>)
    /\ Len(chunks) = 2
    /\ task = <<"failed", "done">>
    /\ out = <<<<>>, <<2>>>>

====
